---- MODULE Spec2Model ----
(***************************************************************************)
(* A model of app/js/sat.js: the labeling session (Sat), its items         *)
(* (SatItem / SatImage) and its labels (SatLabel / ImageLabel).            *)
(*                                                                         *)
(* Objects are modelled by references: a label object is its position in   *)
(* sat.labels (that array is append-only), an item object is its position  *)
(* in sat.items.  Positions are 1-based here and 0-based in the code.      *)
(* A handler that throws (TypeError on a property of undefined or null)    *)
(* stops where it throws: what it assigned before stays assigned, and the  *)
(* record of the session carries fault = TRUE out of the handler.          *)
(***************************************************************************)
EXTENDS Integers, Sequences, FiniteSets, TLC

(***************************************************************************)
(* Values                                                                  *)
(***************************************************************************)
\* the null reference
Null == 0
\* the undefined value, where the code can hold it in place of an object
Undef == -1
\* an absent id: a previousLabelId / nextLabelId / resizeID that is not set
NoId == -1
\* an absent handle (currHandle / hoverHandle null or not yet assigned)
NoHandle == -2
\* an absent position (movePos / moveClickPos null or not yet assigned)
NoPos == <<>>

\* JavaScript truthiness of a number-or-undefined field
Truthy(n) == n # NoId /\ n # 0
\* JavaScript truthiness of an object reference
IsObj(r) == r >= 1

\* the remainder operator of JavaScript: the sign follows the dividend
JsRem(a, n) == IF a >= 0 THEN a % n ELSE -((-a) % n)

Max(a, b) == IF a >= b THEN a ELSE b

\* m[k] = v, as an assignment to a property of a plain object
MapPut(m, k, v) == [x \in (DOMAIN m) \cup {k} |-> IF x = k THEN v ELSE m[x]]
\* m[k], undefined when k is not a property of m
Lookup(m, k) == IF k \in DOMAIN m THEN m[k] ELSE Undef

\* Array.prototype.splice(j, 1) at the 1-based position j
Splice(q, j) == [k \in 1..(Len(q) - 1) |-> IF k < j THEN q[k] ELSE q[k + 1]]

(***************************************************************************)
(* Bounds and constants                                                    *)
(***************************************************************************)
\* most labels a session holds (loaded and created together)
MaxLabels == 3
\* most items a session holds
MaxItems == 3
\* gotoItem is called with an index in -MaxIndex .. MaxIndex
MaxIndex == 4
\* one byte of a pixel channel holds 0 .. ByteBase - 1
ByteBase == 256
\* the handle a freshly drawn box is dragged by
INITIAL_HANDLE == 5
\* a box narrower or lower than this is rejected at the end of a resize
MinBoxSize == 1

(***************************************************************************)
(* Constructors                                                            *)
(***************************************************************************)
\* the box of a label read from a document
LoadedBox == <<0, 0, MinBoxSize, MinBoxSize>>

\* new SatLabel(sat, id)
SatLabel(id, box) ==
  [id |-> id, valid |-> TRUE, parent |-> Null, children |-> <<>>,
   numChildren |-> 0, previousLabelId |-> NoId, nextLabelId |-> NoId,
   box |-> box]

\* new SatItem(sat, index, url)
SatItem(index) ==
  [index |-> index, labels |-> <<>>, ready |-> FALSE, active |-> FALSE,
   state |-> "none", selectedLabel |-> Null, currHandle |-> NoHandle,
   resizeID |-> NoId, movePos |-> NoPos, moveClickPos |-> NoPos,
   hoverLabel |-> Null, hoverHandle |-> NoHandle]

\* new Sat(ItemType, LabelType), with the handlers bound in the page:
\* mouseTarget is the item whose closures are document.onmousedown /
\* onmousemove / onmouseup and the prev / next buttons; buttonTarget is the
\* item whose closures are bound to the end / delete / remove buttons
Sat ==
  [items |-> <<>>, labels |-> <<>>, labelIdMap |-> <<>>, lastLabelId |-> -1,
   currentItem |-> Null, events |-> <<>>,
   mouseTarget |-> Null, buttonTarget |-> Null, fault |-> FALSE]

\* a handler threw
Throw(s) == [s EXCEPT !.fault = TRUE]

(***************************************************************************)
(* Sat: items, label ids, events                                           *)
(***************************************************************************)
newItem(s) == [s EXCEPT !.items = Append(@, SatItem(Len(s.items)))]

addEvent(s, action, itemIndex) ==
  [s EXCEPT !.events = Append(@, [action |-> action, itemIndex |-> itemIndex,
                                  labelId |-> -1])]

\* sat.items[k] for a 0-based k, undefined outside the array
ItemAt(s, k) == IF k >= 0 /\ k < Len(s.items) THEN k + 1 ELSE Undef

previousItem(s, it) ==
  IF s.items[it].index = 0 THEN Null ELSE ItemAt(s, s.items[it].index - 1)

nextItem(s, it) ==
  IF s.items[it].index + 1 >= Len(s.items) THEN Null
  ELSE ItemAt(s, s.items[it].index + 1)

setActive(s, it, active) ==
  IF active
  THEN [s EXCEPT !.items[it].active = TRUE, !.items[it].state = "free",
                 !.mouseTarget = it, !.buttonTarget = it]
  ELSE [s EXCEPT !.items[it].active = FALSE, !.buttonTarget = Null]

(***************************************************************************)
(* Documents (the wire JSON) and Sat.decodeBaseJson                        *)
(***************************************************************************)
\* a label of a document; children absent is hasChildren = FALSE
JLabel(id, parent, children, prev, next) ==
  [id |-> id, parent |-> parent, hasChildren |-> children # <<>>,
   children |-> children, previousLabelId |-> prev, nextLabelId |-> next]

\* an item of a document
JItem(index, labelIds) == [index |-> index, labelIds |-> labelIds]

JDoc(items, labels) == [hasItems |-> TRUE, items |-> items, labels |-> labels]

decodeBaseJsonVariables(l, json) ==
  [l EXCEPT !.id = json.id,
            !.previousLabelId =
               IF json.previousLabelId > -1 THEN json.previousLabelId ELSE @,
            !.nextLabelId =
               IF json.nextLabelId > -1 THEN json.nextLabelId ELSE @]

addChild(l, child) ==
  [l EXCEPT !.numChildren = @ + 1, !.children = Append(@, child)]

RECURSIVE addChildren(_, _, _, _)
addChildren(l, map, childrenIds, i) ==
  IF i > Len(childrenIds) THEN l
  ELSE addChildren(addChild(l, Lookup(map, childrenIds[i])), map,
                   childrenIds, i + 1)

decodeBaseJsonPointers(l, map, json) ==
  LET l1 == IF json.parent > -1
            THEN [l EXCEPT !.parent = Lookup(map, json.parent)] ELSE l
  IN IF json.hasChildren THEN addChildren(l1, map, json.children, 1) ELSE l1

\* first loop of decodeBaseJson: construct and register every label
RECURSIVE decodeLabels(_, _, _)
decodeLabels(s, jl, i) ==
  IF i > Len(jl) THEN s
  ELSE decodeLabels(
         [s EXCEPT !.lastLabelId = Max(@, jl[i].id),
                   !.labels = Append(@, decodeBaseJsonVariables(
                                          SatLabel(jl[i].id, LoadedBox), jl[i])),
                   !.labelIdMap = MapPut(@, jl[i].id, Len(s.labels) + 1)],
         jl, i + 1)

\* SatItem.getVisibleLabels, as the set of the labels it returns; it throws
\* on an undefined entry, and then returns nothing
getVisibleLabels(s, it) ==
  IF \E k \in 1..Len(s.items[it].labels) : ~IsObj(s.items[it].labels[k])
  THEN {}
  ELSE {s.items[it].labels[k] :
          k \in {j \in 1..Len(s.items[it].labels) :
                   s.labels[s.items[it].labels[j]].valid
                   /\ s.labels[s.items[it].labels[j]].numChildren = 0}}

\* SatItem.fromJson
itemFromJson(it, map, selfJson) ==
  [it EXCEPT !.index = selfJson.index,
             !.labels = @ \o [k \in 1..Len(selfJson.labelIds) |->
                                Lookup(map, selfJson.labelIds[k])]]

\* second loop: the items
RECURSIVE decodeItems(_, _, _)
decodeItems(s, ji, i) ==
  IF i > Len(ji) THEN s
  ELSE LET s1 == newItem(s)
           n == Len(s1.items)
       IN decodeItems(
            [s1 EXCEPT !.items[n] = itemFromJson(@, s1.labelIdMap, ji[i])],
            ji, i + 1)

\* third loop: the pointers, through the label registered under each id
RECURSIVE decodePointers(_, _, _)
decodePointers(s, jl, i) ==
  IF i > Len(jl) THEN s
  ELSE LET r == s.labelIdMap[jl[i].id]
       IN decodePointers(
            [s EXCEPT !.labels[r] =
                        decodeBaseJsonPointers(@, s.labelIdMap, jl[i])],
            jl, i + 1)

\* a decoding in one pass: the pointers of a label are resolved when the
\* label is constructed, through the labels registered so far
decodeBaseJson_onePass(s, json) ==
  LET RECURSIVE onePass(_, _)
      onePass(t, i) ==
        IF i > Len(json.labels) THEN t
        ELSE LET jl == json.labels[i]
                 map == MapPut(t.labelIdMap, jl.id, Len(t.labels) + 1)
                 l == decodeBaseJsonVariables(SatLabel(jl.id, LoadedBox), jl)
             IN onePass([t EXCEPT !.lastLabelId = Max(@, jl.id),
                                  !.labels = Append(@,
                                    decodeBaseJsonPointers(l, map, jl)),
                                  !.labelIdMap = map],
                        i + 1)
      s1 == onePass(s, 1)
  IN IF ~json.hasItems THEN Throw(s1)
     ELSE LET s2 == decodeItems(s1, json.items, 1)
              s3 == [s2 EXCEPT !.currentItem = ItemAt(s2, 0)]
          IN IF ~IsObj(s3.currentItem) THEN Throw(s3)
             ELSE addEvent(setActive(s3, s3.currentItem, TRUE),
                           "start labeling", s3.items[s3.currentItem].index)

decodeBaseJson(s, json) ==
  LET s1 == decodeLabels(s, json.labels, 1)
  IN IF ~json.hasItems THEN Throw(s1)
     ELSE LET s2 == decodeItems(s1, json.items, 1)
              s3 == [s2 EXCEPT !.currentItem = ItemAt(s2, 0)]
          IN IF ~IsObj(s3.currentItem) THEN Throw(s3)
             ELSE LET s4 == setActive(s3, s3.currentItem, TRUE)
                      s5 == decodePointers(s4, json.labels, 1)
                  IN addEvent(s5, "start labeling",
                              s5.items[s5.currentItem].index)

(***************************************************************************)
(* Sat.encodeBaseJson                                                      *)
(***************************************************************************)
\* the result of an encoding: ok = FALSE when the encoder threw
Encoded(ok, json) == [ok |-> ok, json |-> json]

RECURSIVE validIds_all(_, _, _, _)
\* a collection of ids that does not look at the valid flag
validIds_all(s, refs, i, acc) ==
  IF i > Len(refs) THEN Encoded(TRUE, acc)
  ELSE IF ~IsObj(refs[i]) THEN Encoded(FALSE, acc)
  ELSE validIds_all(s, refs, i + 1, Append(acc, s.labels[refs[i]].id))

RECURSIVE validIds(_, _, _, _)
\* the ids of the valid labels among refs[i..], or a throw on undefined
validIds(s, refs, i, acc) ==
  IF i > Len(refs) THEN Encoded(TRUE, acc)
  ELSE IF ~IsObj(refs[i]) THEN Encoded(FALSE, acc)
  ELSE validIds(s, refs, i + 1,
                IF s.labels[refs[i]].valid
                THEN Append(acc, s.labels[refs[i]].id) ELSE acc)

\* SatLabel.encodeBaseJson
labelToJson(s, r) ==
  LET l == s.labels[r]
      ch == validIds(s, l.children, 1, <<>>)
  IN Encoded(ch.ok,
       [id |-> l.id,
        parent |-> IF IsObj(l.parent) THEN s.labels[l.parent].id ELSE -1,
        hasChildren |-> Len(l.children) > 0,
        children |-> ch.json,
        previousLabelId |->
          IF Truthy(l.previousLabelId) THEN l.previousLabelId ELSE -1,
        nextLabelId |->
          IF Truthy(l.nextLabelId) THEN l.nextLabelId ELSE -1])

\* SatItem.toJson
itemToJson(s, it) ==
  LET ids == validIds(s, s.items[it].labels, 1, <<>>)
  IN Encoded(ids.ok, [index |-> s.items[it].index, labelIds |-> ids.json])

RECURSIVE encodeItems(_, _, _)
encodeItems(s, i, acc) ==
  IF i > Len(s.items) THEN Encoded(TRUE, acc)
  ELSE LET j == itemToJson(s, i)
       IN IF ~j.ok THEN Encoded(FALSE, acc)
          ELSE encodeItems(s, i + 1, Append(acc, j.json))

RECURSIVE encodeLabels(_, _, _)
encodeLabels(s, i, acc) ==
  IF i > Len(s.labels) THEN Encoded(TRUE, acc)
  ELSE IF ~s.labels[i].valid THEN encodeLabels(s, i + 1, acc)
  ELSE LET j == labelToJson(s, i)
       IN IF ~j.ok THEN Encoded(FALSE, acc)
          ELSE encodeLabels(s, i + 1, Append(acc, j.json))

encodeBaseJson(s) ==
  LET items == encodeItems(s, 1, <<>>)
      labs == encodeLabels(s, 1, <<>>)
  IN Encoded(items.ok /\ labs.ok,
             [hasItems |-> TRUE, items |-> items.json, labels |-> labs.json])

(***************************************************************************)
(* Sat.newLabel, Sat.gotoItem, SatImage.redraw                             *)
(***************************************************************************)
\* SatImage.redraw: every entry of the item's labels is asked to draw itself
redraw(s, it) ==
  IF \E k \in 1..Len(s.items[it].labels) : ~IsObj(s.items[it].labels[k])
  THEN Throw(s) ELSE s

\* a newLabelId that numbers a label by how many labels there are
newLabelId_count(s) == [s EXCEPT !.lastLabelId = Len(s.labels)]

newLabelId(s) == [s EXCEPT !.lastLabelId = @ + 1]

\* the reference of the label the last newLabel constructed
NewRef(s) == Len(s.labels)

newLabel(s, box) ==
  LET s1 == newLabelId(s)
      s2 == [s1 EXCEPT !.labels = Append(@, SatLabel(s1.lastLabelId, box)),
                       !.labelIdMap = MapPut(@, s1.lastLabelId,
                                             Len(s1.labels) + 1)]
  IN IF ~IsObj(s2.currentItem) THEN Throw(s2)
     ELSE [s2 EXCEPT !.items[s2.currentItem].labels = Append(@, NewRef(s2))]

gotoItem(s, index) ==
  LET i == JsRem(index, Len(s.items))
  IN IF ~IsObj(s.currentItem) THEN Throw(s)
     ELSE LET s1 == setActive(s, s.currentItem, FALSE)
              s2 == [s1 EXCEPT !.currentItem = ItemAt(s1, i)]
          IN IF ~IsObj(s2.currentItem) THEN Throw(s2)
             ELSE redraw(setActive(s2, s2.currentItem, TRUE), s2.currentItem)

(***************************************************************************)
(* SatLabel.delete                                                         *)
(***************************************************************************)
\* the recursion of delete is cut at Fuel(s) nested calls: on a finite tree
\* it is never that deep, and a recursion that does not end overflows the
\* stack, which throws
Fuel(s) == 2 * Len(s.labels) + 2

RECURSIVE delete(_, _, _)
RECURSIVE deleteChildren(_, _, _, _)
delete(s, this, fuel) ==
  IF s.fault THEN s
  ELSE IF fuel = 0 THEN Throw(s)
  ELSE LET s1 == [s EXCEPT !.labels[this].valid = FALSE]
           p == s1.labels[this].parent
           s2 == IF p = Null THEN s1
                 ELSE IF p = Undef THEN Throw(s1)
                 ELSE LET d == [s1 EXCEPT !.labels[p].numChildren = @ - 1]
                      IN IF d.labels[p].numChildren = 0
                         THEN delete(d, p, fuel - 1) ELSE d
       IN deleteChildren(s2, this, 1, fuel)

deleteChildren(s, this, i, fuel) ==
  IF s.fault \/ i > Len(s.labels[this].children) THEN s
  ELSE LET c == s.labels[this].children[i]
       IN IF ~IsObj(c) THEN Throw(s)
          ELSE deleteChildren(
                 delete([s EXCEPT !.labels[c].parent = Null], c, fuel - 1),
                 this, i + 1, fuel)

(***************************************************************************)
(* SatItem.deleteLabelById                                                 *)
(***************************************************************************)
\* selectedLabel && selectedLabel.id === id, then the selection is dropped
clearSelection(s, it, id) ==
  IF IsObj(s.items[it].selectedLabel)
     /\ s.labels[s.items[it].selectedLabel].id = id
  THEN [s EXCEPT !.items[it].selectedLabel = Null,
                 !.items[it].currHandle = NoHandle]
  ELSE s

\* the inner for loop: splice currentLabel out of currentItem.labels; j is
\* incremented after a splice too, as in the code
RECURSIVE spliceLoop(_, _, _, _)
spliceLoop(s, ci, cl, j) ==
  IF s.fault \/ j > Len(s.items[ci].labels) THEN s
  ELSE LET e == s.items[ci].labels[j]
       IN IF ~IsObj(e) \/ ~IsObj(cl) THEN Throw(s)
          ELSE IF s.labels[e].id = s.labels[cl].id
          THEN spliceLoop(
                 clearSelection(
                   [s EXCEPT !.items[ci].labels = Splice(@, j)],
                   ci, s.labels[cl].id),
                 ci, cl, j + 1)
          ELSE spliceLoop(s, ci, cl, j + 1)

\* the previous / next link of a label and the item before / after an item
LinkOf(l, forward) == IF forward THEN l.nextLabelId ELSE l.previousLabelId
Adjacent(s, it, forward) ==
  IF forward THEN nextItem(s, it) ELSE previousItem(s, it)

\* one of the two while loops; a walk that comes back to an item it left
\* never ends, which the model reports as a throw
RECURSIVE chainWalk(_, _, _, _, _)
chainWalk(s, ci, cl, forward, fuel) ==
  IF s.fault \/ ~IsObj(ci) THEN s
  ELSE IF fuel = 0 THEN Throw(s)
  ELSE LET s1 == spliceLoop(s, ci, cl, 1)
           nl == IF IsObj(cl)
                 THEN Lookup(s1.labelIdMap, LinkOf(s1.labels[cl], forward))
                 ELSE cl
       IN chainWalk(s1, Adjacent(s1, ci, forward), nl, forward, fuel - 1)

\* the position of the first entry of the item's labels with this id: 0
\* when there is none, -1 when the search reads .id of undefined first
RECURSIVE findLabel(_, _, _, _)
findLabel(s, it, labelId, i) ==
  IF i > Len(s.items[it].labels) THEN 0
  ELSE IF ~IsObj(s.items[it].labels[i]) THEN -1
  ELSE IF s.labels[s.items[it].labels[i]].id = labelId THEN i
  ELSE findLabel(s, it, labelId, i + 1)

deleteLabelById(s, it, labelId, back) ==
  LET i == findLabel(s, it, labelId, 1)
  IN IF i = -1 THEN Throw(s)
     ELSE IF i = 0 THEN s
     ELSE LET l == s.labels[s.items[it].labels[i]]
              n == Len(s.items) + 1
              s1 == IF back
                    THEN chainWalk(s, previousItem(s, it),
                                   Lookup(s.labelIdMap, l.previousLabelId),
                                   FALSE, n)
                    ELSE s
              s2 == chainWalk(s1, nextItem(s1, it),
                              Lookup(s1.labelIdMap, l.nextLabelId), TRUE, n)
          IN IF s2.fault THEN s2
             ELSE clearSelection(
                    [s2 EXCEPT !.items[it].labels = Splice(@, i)],
                    it, labelId)

(***************************************************************************)
(* The hidden canvas: identity encoding and SatImage._getSelected          *)
(***************************************************************************)
\* a pixel is <<r, g, b, a>>; the pixel no label was drawn on
Transparent == <<0, 0, 0, 0>>

\* the color a label draws its handle with on the hidden canvas: the slot
\* (position in the item's labels, 0-based) in r and g, handle + 1 in b
encodeId(slot, handle) ==
  <<slot \div ByteBase, slot % ByteBase, handle + 1, ByteBase - 1>>

\* a hit test that takes the handle from the blue channel as it is
getSelected_rawHandle(s, it, pixelData) ==
  LET selectedLabelIndex ==
        IF pixelData[4] # 0 THEN pixelData[1] * 256 + pixelData[2] ELSE -1
      currHandle == IF pixelData[4] # 0 THEN pixelData[3] ELSE NoHandle
  IN << IF selectedLabelIndex >= 0
           /\ selectedLabelIndex < Len(s.items[it].labels)
        THEN s.items[it].labels[selectedLabelIndex + 1] ELSE Undef,
        currHandle >>

\* [label, handle] under the mouse: the label is undefined when the pixel is
\* transparent or names a slot outside the item's labels
getSelected(s, it, pixelData) ==
  LET selectedLabelIndex ==
        IF pixelData[4] # 0 THEN pixelData[1] * 256 + pixelData[2] ELSE -1
      currHandle == IF pixelData[4] # 0 THEN pixelData[3] - 1 ELSE NoHandle
  IN << IF selectedLabelIndex >= 0
           /\ selectedLabelIndex < Len(s.items[it].labels)
        THEN s.items[it].labels[selectedLabelIndex + 1] ELSE Undef,
        currHandle >>

\* a selectedLabel / hoverLabel that is undefined or null is tested for
\* truthiness only: both are held as Null
NoneRef(r) == IF IsObj(r) THEN r ELSE Null

(***************************************************************************)
(* The box of an ImageLabel                                                *)
(***************************************************************************)
\* most labels drawn with the mouse in a session
MaxDrawn == 1
\* how many times the mouse button goes down in a session
MaxClicks == 1
\* coordinates inside the padded frame
MaxCoord == 1
Clamp(v) == IF v < 0 THEN 0 ELSE IF v > MaxCoord THEN MaxCoord ELSE v

getCurrentPosition(l) == <<l.box[1], l.box[2]>>

isSmall(l) == l.box[3] < MinBoxSize \/ l.box[4] < MinBoxSize

\* label.move: the box follows the mouse from where it was clicked
move(l, mousePos, movePos, moveClickPos) ==
  [l EXCEPT !.box = <<Clamp(movePos[1] + mousePos[1] - moveClickPos[1]),
                      Clamp(movePos[2] + mousePos[2] - moveClickPos[2]),
                      @[3], @[4]>>]

\* a reordering that looks at the width alone
normalize_widthOnly(l) ==
  IF l.box[3] < 0
  THEN [l EXCEPT !.box = <<@[1] + @[3], @[2], -1 * @[3], @[4]>>]
  ELSE l

\* the reordering of a resized box at the end of the gesture
normalize(l) ==
  LET l1 == IF l.box[3] < 0
            THEN [l EXCEPT !.box = <<@[1] + @[3], @[2], -1 * @[3], @[4]>>]
            ELSE l
  IN IF l1.box[4] < 0
     THEN [l1 EXCEPT !.box = <<@[1], @[2] + @[4], @[3], -1 * @[4]>>]
     ELSE l1

(***************************************************************************)
(* SatImage._mousedown, _mousemove, _mouseup                               *)
(***************************************************************************)
mousedown(s, it, within, mousePos, pixelData) ==
  IF within /\ s.items[it].state = "free"
  THEN LET hit == getSelected(s, it, pixelData)
           sel == hit[1]
           s1 == [s EXCEPT !.items[it].selectedLabel = NoneRef(sel),
                           !.items[it].currHandle = hit[2]]
       IN IF IsObj(sel) /\ hit[2] > 0
          THEN redraw([s1 EXCEPT !.items[it].state = "resize",
                                 !.items[it].resizeID = s.labels[sel].id], it)
          ELSE IF hit[2] = 0 /\ IsObj(sel)
          THEN redraw([s1 EXCEPT !.items[it].movePos =
                                    getCurrentPosition(s.labels[sel]),
                                 !.items[it].moveClickPos = mousePos,
                                 !.items[it].state = "move"], it)
          ELSE IF ~IsObj(sel)
          THEN LET s2 == newLabel(s1, <<mousePos[1], mousePos[2], 0, 0>>)
               IN IF s2.fault THEN s2
                  ELSE redraw(
                         [s2 EXCEPT !.items[it].selectedLabel = NewRef(s2),
                                    !.items[it].state = "resize",
                                    !.items[it].currHandle = INITIAL_HANDLE,
                                    !.items[it].resizeID =
                                       s2.labels[NewRef(s2)].id], it)
          ELSE redraw(s1, it)
  ELSE redraw(s, it)

\* box is the box label.resize computes from the mouse position
\* a move of the mouse that selects what it hovers over
mousemove_selectsHover(s, it, mousePos, pixelData, box) ==
  LET hit == getSelected(s, it, pixelData)
      s1 == [s EXCEPT !.items[it].hoverLabel = NoneRef(hit[1]),
                      !.items[it].hoverHandle = hit[2],
                      !.items[it].selectedLabel = NoneRef(hit[1])]
  IN redraw(s1, it)

mousemove(s, it, mousePos, pixelData, box) ==
  LET hit == getSelected(s, it, pixelData)
      s1 == [s EXCEPT !.items[it].hoverLabel = NoneRef(hit[1]),
                      !.items[it].hoverHandle = hit[2]]
      sel == s1.items[it].selectedLabel
  IN IF s1.items[it].state = "resize"
     THEN IF ~IsObj(sel) THEN Throw(s1)
          ELSE redraw([s1 EXCEPT !.labels[sel].box = box], it)
     ELSE IF s1.items[it].state = "move"
     THEN IF ~IsObj(sel) THEN Throw(s1)
          ELSE redraw([s1 EXCEPT !.labels[sel] =
                         move(@, mousePos, s1.items[it].movePos,
                              s1.items[it].moveClickPos)], it)
     ELSE redraw(s1, it)

\* the selection is handed to the chain label of every other item
RECURSIVE selectWalk(_, _, _, _, _)
selectWalk(s, ci, cl, forward, fuel) ==
  IF s.fault \/ ~IsObj(ci) THEN s
  ELSE IF fuel = 0 THEN Throw(s)
  ELSE LET s1 == [s EXCEPT !.items[ci].selectedLabel = NoneRef(cl)]
       IN IF ~IsObj(cl) THEN Throw(s1)
          ELSE selectWalk(
                 [s1 EXCEPT !.items[ci].currHandle = INITIAL_HANDLE],
                 Adjacent(s1, ci, forward),
                 Lookup(s1.labelIdMap, LinkOf(s1.labels[cl], forward)),
                 forward, fuel - 1)

\* an end of the gesture that drops the selection of a box that is too small
\* and leaves the box as it is
endGesture_keepSmall(s, it) ==
  IF s.items[it].state = "free" THEN s
  ELSE LET sel == s.items[it].selectedLabel
           s1 == IF s.items[it].state # "resize" THEN s
                 ELSE IF ~IsObj(sel) THEN Throw(s)
                 ELSE LET n == [s EXCEPT !.labels[sel] = normalize(@)]
                      IN IF isSmall(n.labels[sel])
                         THEN [n EXCEPT !.items[it].selectedLabel = Null]
                         ELSE n
       IN IF s1.fault THEN s1
          ELSE [s1 EXCEPT !.items[it].state = "free",
                          !.items[it].resizeID = NoId,
                          !.items[it].movePos = NoPos,
                          !.items[it].moveClickPos = NoPos]

\* the first half of _mouseup: the end of a gesture
endGesture(s, it) ==
  IF s.items[it].state = "free" THEN s
  ELSE LET sel == s.items[it].selectedLabel
           s1 == IF s.items[it].state # "resize" THEN s
                 ELSE IF ~IsObj(sel) THEN Throw(s)
                 ELSE LET n == [s EXCEPT !.labels[sel] = normalize(@)]
                      IN IF isSmall(n.labels[sel])
                         THEN LET d == delete(n, sel, Fuel(n))
                              IN IF d.fault THEN d
                                 ELSE [d EXCEPT
                                         !.items[it].selectedLabel = Null]
                         ELSE n
       IN IF s1.fault THEN s1
          ELSE [s1 EXCEPT !.items[it].state = "free",
                          !.items[it].resizeID = NoId,
                          !.items[it].movePos = NoPos,
                          !.items[it].moveClickPos = NoPos]

mouseup(s, it) ==
  LET s1 == endGesture(s, it)
      sel == s1.items[it].selectedLabel
      n == Len(s1.items) + 1
  IN IF s1.fault THEN s1
     ELSE IF IsObj(sel) /\ IsObj(s1.labels[sel].parent)
     THEN LET s2 == selectWalk(s1, previousItem(s1, it),
                      Lookup(s1.labelIdMap, s1.labels[sel].previousLabelId),
                      FALSE, n)
              s3 == selectWalk(s2, nextItem(s2, it),
                      Lookup(s2.labelIdMap, s2.labels[sel].nextLabelId),
                      TRUE, n)
          IN IF s3.fault THEN s3 ELSE redraw(s3, it)
     ELSE redraw(s1, it)

(***************************************************************************)
(* The click handlers SatImage.setActive binds                             *)
(***************************************************************************)
\* end_btn (back = FALSE) and delete_btn (back = TRUE)
deleteClick(s, it, back) ==
  LET sel == s.items[it].selectedLabel
  IN IF ~IsObj(sel) THEN s
     ELSE LET s1 == deleteLabelById(s, it, s.labels[sel].id, back)
          IN IF s1.fault THEN s1 ELSE redraw(s1, it)

removeClick(s, it) ==
  LET sel == s.items[it].selectedLabel
  IN IF ~IsObj(sel) THEN s
     ELSE LET s1 == delete(s, sel, Fuel(s))
          IN IF s1.fault THEN s1
             ELSE [s1 EXCEPT !.items[it].selectedLabel = Null]

(***************************************************************************)
(* Documents the session is loaded from                                    *)
(***************************************************************************)
\* a chain over two adjacent items that starts at the label with id 0
DocChain ==
  JDoc(<<JItem(0, <<0>>), JItem(1, <<1>>), JItem(2, <<>>)>>,
       <<JLabel(0, -1, <<>>, -1, 1), JLabel(1, -1, <<>>, 0, -1)>>)

\* a chain that skips the item in the middle
DocSkip ==
  JDoc(<<JItem(0, <<3>>), JItem(1, <<>>), JItem(2, <<7>>)>>,
       <<JLabel(3, -1, <<>>, -1, 7), JLabel(7, -1, <<>>, 3, -1)>>)

\* a chain that has a label on every item
DocFull ==
  JDoc(<<JItem(0, <<1>>), JItem(1, <<2>>), JItem(2, <<3>>)>>,
       <<JLabel(1, -1, <<>>, -1, 2), JLabel(2, -1, <<>>, 1, 3),
         JLabel(3, -1, <<>>, 2, -1)>>)

\* a parent label and its two children, one per item, linked as a chain
DocTree ==
  JDoc(<<JItem(0, <<1>>), JItem(1, <<2>>)>>,
       <<JLabel(4, -1, <<1, 2>>, -1, -1), JLabel(1, 4, <<>>, -1, 2),
         JLabel(2, 4, <<>>, 1, -1)>>)

\* two labels without links on the only item
DocFlat ==
  JDoc(<<JItem(0, <<1, 2>>)>>,
       <<JLabel(1, -1, <<>>, -1, -1), JLabel(2, -1, <<>>, -1, -1)>>)

\* labels without links on two items
DocPlain ==
  JDoc(<<JItem(0, <<5>>), JItem(1, <<6>>)>>,
       <<JLabel(5, -1, <<>>, -1, -1), JLabel(6, -1, <<>>, -1, -1)>>)

Docs == {DocChain, DocSkip, DocFull, DocTree, DocFlat, DocPlain}

\* the documents the calls on the session are checked on
GraphDocs == {DocChain, DocSkip, DocTree, DocPlain}

\* every order of the labels array of a document
Reorderings(d) ==
  {[d EXCEPT !.labels = [k \in 1..Len(d.labels) |-> d.labels[p[k]]]] :
     p \in Permutations(1..Len(d.labels))}

\* the documents the page is driven on
UIDocs == {DocFlat, DocPlain}

DocsAnyOrder == UNION {Reorderings(d) : d \in Docs}

NoDoc == [hasItems |-> FALSE, items |-> <<>>, labels |-> <<>>]

\* a parent label and its three children on one item
DocTree3 ==
  JDoc(<<JItem(0, <<1, 2, 3>>)>>,
       <<JLabel(4, -1, <<1, 2, 3>>, -1, -1), JLabel(1, 4, <<>>, -1, -1),
         JLabel(2, 4, <<>>, -1, -1), JLabel(3, 4, <<>>, -1, -1)>>)

\* a label, its two children and the two children of the first of them
DocNested ==
  JDoc(<<JItem(0, <<3, 4, 2>>)>>,
       <<JLabel(0, -1, <<1, 2>>, -1, -1), JLabel(1, 0, <<3, 4>>, -1, -1),
         JLabel(2, 0, <<>>, -1, -1), JLabel(3, 1, <<>>, -1, -1),
         JLabel(4, 1, <<>>, -1, -1)>>)

\* two parents, one with two children and one with a single child
DocTwoTrees ==
  JDoc(<<JItem(0, <<1, 2, 3>>)>>,
       <<JLabel(5, -1, <<1, 2>>, -1, -1), JLabel(6, -1, <<3>>, -1, -1),
         JLabel(1, 5, <<>>, -1, -1), JLabel(2, 5, <<>>, -1, -1),
         JLabel(3, 6, <<>>, -1, -1)>>)

\* the documents with parents and children
TreeDocs == {DocTree, DocTree3, DocNested, DocTwoTrees}

\* a tracked object that appears on the second of three items: a parent
\* label and its two children, linked as a chain over items 1 and 2
DocTrack ==
  JDoc(<<JItem(0, <<>>), JItem(1, <<1>>), JItem(2, <<2>>)>>,
       <<JLabel(4, -1, <<1, 2>>, -1, -1), JLabel(1, 4, <<>>, -1, 2),
         JLabel(2, 4, <<>>, 1, -1)>>)

\* the documents with tracked objects
TrackDocs == {DocTree, DocTrack}

\* documents a well-behaved backend does not send
\* a document without the items field
DocNoItems ==
  [hasItems |-> FALSE, items |-> <<>>,
   labels |-> <<JLabel(1, -1, <<>>, -1, -1)>>]

\* two entries of the labels array have the same id
DocDup ==
  JDoc(<<JItem(0, <<1>>), JItem(1, <<>>)>>,
       <<JLabel(1, -1, <<>>, -1, 2), JLabel(1, -1, <<>>, -1, -1)>>)

\* an item names an id that no label of the document has
DocDangling ==
  JDoc(<<JItem(0, <<1, 9>>), JItem(1, <<>>)>>,
       <<JLabel(1, -1, <<>>, -1, -1)>>)

\* a next link names an id that no label of the document has
DocOrphan ==
  JDoc(<<JItem(0, <<1>>), JItem(1, <<2>>)>>,
       <<JLabel(1, -1, <<>>, -1, 9), JLabel(2, -1, <<>>, -1, -1)>>)

\* the items carry an index that is not their position
DocBadIndex ==
  JDoc(<<JItem(1, <<1>>), JItem(0, <<2>>)>>,
       <<JLabel(1, -1, <<>>, -1, -1), JLabel(2, -1, <<>>, -1, -1)>>)

MalformedDocs == {DocNoItems, DocDup, DocDangling, DocOrphan, DocBadIndex}

(***************************************************************************)
(* State                                                                   *)
(***************************************************************************)
VARIABLES
  items,         \* sat.items, each with the fields of SatItem / SatImage
  labels,        \* sat.labels, each with the fields of SatLabel
  labelIdMap,    \* sat.labelIdMap: id -> label
  lastLabelId,   \* sat.lastLabelId
  currentItem,   \* sat.currentItem
  events,        \* sat.events
  mouseTarget,   \* the item bound to the document's mouse events
  buttonTarget,  \* the item bound to the end / delete / remove buttons
  loaded,        \* Sat.fromJson was called
  doc,           \* the document it was called with
  clicks,        \* how many times the mouse button went down
  last           \* the last call: what, on which item, with which argument,
                 \* and whether it threw

vars == <<items, labels, labelIdMap, lastLabelId, currentItem, events,
          mouseTarget, buttonTarget, loaded, doc, clicks, last>>

\* the session as the handlers see it
Session ==
  [items |-> items, labels |-> labels, labelIdMap |-> labelIdMap,
   lastLabelId |-> lastLabelId, currentItem |-> currentItem,
   events |-> events, mouseTarget |-> mouseTarget,
   buttonTarget |-> buttonTarget, fault |-> FALSE]

\* the session as a handler leaves it
Becomes(s) ==
  /\ items' = s.items
  /\ labels' = s.labels
  /\ labelIdMap' = s.labelIdMap
  /\ lastLabelId' = s.lastLabelId
  /\ currentItem' = s.currentItem
  /\ events' = s.events
  /\ mouseTarget' = s.mouseTarget
  /\ buttonTarget' = s.buttonTarget

\* a call, its receiver (an item), its argument (a label id or an index),
\* its flag (back, forward, within the frame), the pixel it read, the
\* position of the mouse, the box the selected label had and whether it
\* threw
Call(op, item, arg, back, s) ==
  [op |-> op, item |-> item, arg |-> arg, back |-> back,
   pixel |-> Transparent, pos |-> NoPos, box |-> NoPos, fault |-> s.fault]

\* a mouse event on an item, with the id of the label that was selected
\* when it came and the pixel under the mouse
MouseCall(op, it, pixelData, s) ==
  [op |-> op, item |-> it,
   arg |-> IF IsObj(items[it].selectedLabel)
           THEN labels[items[it].selectedLabel].id ELSE -1,
   back |-> FALSE, pixel |-> pixelData, pos |-> NoPos, box |-> NoPos,
   fault |-> s.fault]

Init ==
  /\ items = Sat.items
  /\ labels = Sat.labels
  /\ labelIdMap = Sat.labelIdMap
  /\ lastLabelId = Sat.lastLabelId
  /\ currentItem = Sat.currentItem
  /\ events = Sat.events
  /\ mouseTarget = Sat.mouseTarget
  /\ buttonTarget = Sat.buttonTarget
  /\ loaded = FALSE
  /\ doc = NoDoc
  /\ clicks = 0
  /\ last = Call("new", Null, -1, FALSE, Sat)

(***************************************************************************)
(* Inputs                                                                  *)
(***************************************************************************)
\* handles a label draws on the hidden canvas: the body and a corner
PixelHandles == {0, 1}

\* what the hidden canvas can show under the mouse after the item drew its
\* labels: nothing, or a handle of one of the slots
Pixels(it) ==
  {Transparent} \cup
  {encodeId(k - 1, h) : k \in 1..Len(items[it].labels), h \in PixelHandles}

\* the two ways a resize can end: with a proper box that was dragged across
\* its own corner, or with a box without height
SmallOrInverted ==
  {<<MinBoxSize, MinBoxSize, -MinBoxSize, -MinBoxSize>>,
   <<0, 0, MinBoxSize, MinBoxSize - 1>>}

\* widest and highest box a drag ends with, in either direction
MaxSize == 2
\* the boxes a resize can end with, in all four directions from one corner
Boxes ==
  {<<MaxSize, 0, w, h>> : w \in (-MaxSize)..MaxSize,
                          h \in (-MaxSize)..MaxSize}

\* ids a caller may pass for a label of an item: the ids of the labels the
\* item lists, and an id no label has
IdsFor(it) ==
  {labels[items[it].labels[k]].id :
     k \in {j \in 1..Len(items[it].labels) : IsObj(items[it].labels[j])}}
  \cup {lastLabelId + 1}

(***************************************************************************)
(* Actions: one per call or handler                                        *)
(***************************************************************************)
\* Sat.fromJson(json), once, on the constructed session
Load(D) ==
  /\ ~loaded
  /\ \E json \in D :
       \E s \in {decodeBaseJson(Session, json)} :
          /\ Becomes(s)
          /\ doc' = json
          /\ last' = Call("load", Null, -1, FALSE, s)
  /\ loaded' = TRUE
  /\ UNCHANGED clicks

\* Sat.newItem(url)
NewItem ==
  /\ loaded
  /\ Len(items) < MaxItems
  /\ \E s \in {newItem(Session)} :
        /\ Becomes(s)
        /\ last' = Call("newItem", Len(s.items), -1, FALSE, s)
  /\ UNCHANGED <<loaded, doc, clicks>>

\* Sat.newLabel(optionalAttributes)
NewLabel ==
  /\ loaded
  /\ Len(labels) < MaxLabels
  /\ \E mousePos \in {<<0, 0>>} :
       \E s \in {newLabel(Session, <<mousePos[1], mousePos[2], 0, 0>>)} :
          /\ Becomes(s)
          /\ last' = Call("newLabel", currentItem, s.lastLabelId, FALSE, s)
  /\ UNCHANGED <<loaded, doc, clicks>>

\* label.delete() on any label of the session
Delete ==
  /\ loaded
  /\ \E r \in 1..Len(labels) :
       \E s \in {delete(Session, r, Fuel(Session))} :
          /\ Becomes(s)
          /\ last' = Call("delete", Null, labels[r].id, FALSE, s)
  /\ UNCHANGED <<loaded, doc, clicks>>

\* item.deleteLabelById(labelId, back) on any item of the session
DeleteLabelById ==
  /\ loaded
  /\ \E it \in 1..Len(items), back \in BOOLEAN :
     \E labelId \in IdsFor(it) :
       \E s \in {deleteLabelById(Session, it, labelId, back)} :
          /\ Becomes(s)
          /\ last' = Call("deleteLabelById", it, labelId, back, s)
  /\ UNCHANGED <<loaded, doc, clicks>>

\* Sat.gotoItem(index)
GotoItem(I) ==
  /\ loaded
  /\ Len(items) > 0
  /\ \E index \in I :
       \E s \in {gotoItem(Session, index)} :
          /\ Becomes(s)
          /\ last' = Call("gotoItem", Null, index, FALSE, s)
  /\ UNCHANGED <<loaded, doc, clicks>>

\* prev_btn.onclick (forward = FALSE) and next_btn.onclick (forward = TRUE)
PrevNextBtn ==
  /\ IsObj(mouseTarget)
  /\ \E forward \in BOOLEAN :
       LET index == items[mouseTarget].index + (IF forward THEN 1 ELSE -1)
       IN \E s \in {gotoItem(Session, index)} :
          /\ Becomes(s)
          /\ last' = Call("gotoItem", mouseTarget, index, forward, s)
  /\ UNCHANGED <<loaded, doc, clicks>>

\* document.onmousedown, inside the frame or not, at a position of P; the
\* call records both
Press(P) ==
  /\ IsObj(mouseTarget)
  /\ \E within \in BOOLEAN, mousePos \in P,
        pixelData \in Pixels(mouseTarget) :
       \E s \in {mousedown(Session, mouseTarget, within, mousePos, pixelData)} :
          /\ Len(s.labels) <= Len(doc.labels) + MaxDrawn
          /\ Becomes(s)
          /\ last' = [MouseCall("mousedown", mouseTarget, pixelData, s)
                        EXCEPT !.back = within, !.pos = mousePos]
  /\ UNCHANGED <<loaded, doc>>

\* document.onmousedown, at most MaxClicks times
MouseDown(P) ==
  /\ clicks < MaxClicks
  /\ clicks' = clicks + 1
  /\ Press(P)

\* document.onmousedown, any number of times
MouseDownAgain(P) ==
  /\ clicks' = clicks
  /\ Press(P)

\* document.onmousemove
MouseMove(P, X, B) ==
  /\ IsObj(mouseTarget)
  /\ \E mousePos \in P, pixelData \in X, box \in B :
       \E s \in {mousemove(Session, mouseTarget, mousePos, pixelData, box)} :
          /\ Becomes(s)
          /\ last' = MouseCall("mousemove", mouseTarget, pixelData, s)
  /\ UNCHANGED <<loaded, doc, clicks>>

\* document.onmouseup
MouseUp ==
  /\ IsObj(mouseTarget)
  /\ \E s \in {mouseup(Session, mouseTarget)} :
        /\ Becomes(s)
        /\ last' = [MouseCall("mouseup", mouseTarget, Transparent, s)
                      EXCEPT !.box =
                        IF IsObj(items[mouseTarget].selectedLabel)
                        THEN labels[items[mouseTarget].selectedLabel].box
                        ELSE NoPos]
  /\ UNCHANGED <<loaded, doc, clicks>>

\* the click on end_btn (back = FALSE) or delete_btn (back = TRUE)
DeleteBtn ==
  /\ IsObj(buttonTarget)
  /\ \E back \in BOOLEAN :
       LET sel == items[buttonTarget].selectedLabel
       IN \E s \in {deleteClick(Session, buttonTarget, back)} :
          /\ Becomes(s)
          /\ last' = Call("deleteLabelById", buttonTarget,
                          IF IsObj(sel) THEN labels[sel].id ELSE -1, back, s)
  /\ UNCHANGED <<loaded, doc, clicks>>

\* the click on remove_btn
RemoveBtn ==
  /\ IsObj(buttonTarget)
  /\ LET sel == items[buttonTarget].selectedLabel
     IN \E s \in {removeClick(Session, buttonTarget)} :
        /\ Becomes(s)
        /\ last' = Call("remove", buttonTarget,
                        IF IsObj(sel) THEN labels[sel].id ELSE -1, FALSE, s)
  /\ UNCHANGED <<loaded, doc, clicks>>

\* the calls on the session and its items
Next ==
  \/ Load(GraphDocs)
  \/ NewLabel
  \/ Delete
  \/ DeleteLabelById
  \/ GotoItem(0..(Len(items) - 1))

Spec == Init /\ [][Next]_vars

\* navigation alone, with any index
NextNav ==
  \/ Load(Docs)
  \/ NewItem
  \/ GotoItem((-MaxIndex)..MaxIndex)
  \/ PrevNextBtn

SpecNav == Init /\ [][NextNav]_vars

\* the handlers of the page
NextUI ==
  \/ Load(UIDocs)
  \/ PrevNextBtn
  \/ MouseDown({<<0, 0>>})
  \/ MouseMove({<<0, 0>>}, {Transparent}, SmallOrInverted)
  \/ MouseUp
  \/ DeleteBtn
  \/ RemoveBtn

SpecUI == Init /\ [][NextUI]_vars

\* loading alone, with the labels array in any order
NextLoad ==
  \/ Load(DocsAnyOrder)
  \/ NewLabel
  \/ Delete

SpecLoad == Init /\ [][NextLoad]_vars

\* slots and handles of the identity encoding: the ends of the range and
\* the values around a byte boundary
Slots ==
  {0, 1, 2, ByteBase - 1, ByteBase, ByteBase + 1, 2 * ByteBase - 1,
   2 * ByteBase, ByteBase * ByteBase - ByteBase, ByteBase * ByteBase - 1}
Handles ==
  {-1, 0, 1, 2, 8, 9, ByteBase \div 2 - 1, ByteBase \div 2, ByteBase - 4,
   ByteBase - 3}

\* every pixel a label can draw, and pixels nothing was drawn on
AnyPixel ==
  {encodeId(slot, h) : slot \in Slots, h \in Handles}
  \cup {<<r, g, 1, 0>> : r \in {0, ByteBase - 1}, g \in {0, 1}}
  \cup {Transparent}

\* the hit test alone: the mouse moves over any pixel
NextPixel ==
  \/ Load({DocFlat})
  \/ MouseMove({<<0, 0>>}, AnyPixel, SmallOrInverted)

SpecPixel == Init /\ [][NextPixel]_vars

\* the calls on a session that was loaded from a malformed document
NextMalformed ==
  \/ Load(MalformedDocs)
  \/ NewItem
  \/ NewLabel
  \/ Delete
  \/ DeleteLabelById
  \/ GotoItem(0..(Len(items) - 1))

SpecMalformed == Init /\ [][NextMalformed]_vars

\* deletions alone, on labels with parents and children
NextTree ==
  \/ Load(TreeDocs)
  \/ Delete

SpecTree == Init /\ [][NextTree]_vars

\* the mouse button alone, pressed and released any number of times at two
\* positions
NextDown ==
  \/ Load(UIDocs)
  \/ MouseDownAgain({<<0, 0>>, <<MaxCoord, 0>>})
  \/ MouseUp

SpecDown == Init /\ [][NextDown]_vars

\* the mouse alone: one press, and moves to two positions over every pixel
\* the labels of the item draw
NextMove ==
  \/ Load(UIDocs)
  \/ MouseDown({<<0, 0>>})
  \/ MouseMove({<<0, 0>>, <<MaxCoord, 0>>}, Pixels(mouseTarget),
               SmallOrInverted)
  \/ MouseUp

SpecMove == Init /\ [][NextMove]_vars

\* gestures on tracked objects: navigation, one press and releases
NextTrack ==
  \/ Load(TrackDocs)
  \/ PrevNextBtn
  \/ MouseDown({<<0, 0>>})
  \/ MouseUp

SpecTrack == Init /\ [][NextTrack]_vars

\* resizes alone: one press, drags that end with any box, and releases
NextResize ==
  \/ Load(UIDocs)
  \/ MouseDown({<<0, 0>>})
  \/ MouseMove({<<0, 0>>}, {Transparent}, Boxes)
  \/ MouseUp

SpecResize == Init /\ [][NextResize]_vars

\* gestures on tracked objects and the buttons that delete the selection
NextEdit ==
  \/ NextTrack
  \/ DeleteBtn
  \/ RemoveBtn

SpecEdit == Init /\ [][NextEdit]_vars

(***************************************************************************)
(* Derived notions the properties are stated with                          *)
(***************************************************************************)
Range(q) == {q[k] : k \in 1..Len(q)}

\* the ids of the labels of the session
Ids == {labels[r].id : r \in 1..Len(labels)}

\* the ids of the labels of a document are unique
UniqueIds(json) ==
  \A a, b \in 1..Len(json.labels) :
    json.labels[a].id = json.labels[b].id => a = b

\* the labels a label reaches over previousLabelId and nextLabelId
Linked(r) ==
  {x \in {Lookup(labelIdMap, labels[r].previousLabelId),
          Lookup(labelIdMap, labels[r].nextLabelId)} : IsObj(x)}

RECURSIVE Reach(_, _)
Reach(S, n) ==
  IF n = 0 THEN S ELSE Reach(S \cup UNION {Linked(r) : r \in S}, n - 1)

\* the chain of a label: the label and all it reaches
ChainOf(r) == Reach({r}, Len(labels))

\* the items that list a label
ItemsOf(r) == {it \in 1..Len(items) : r \in Range(items[it].labels)}

\* previous links lead to labels of earlier items, next links to labels of
\* later items
Monotonic(S) ==
  \A r \in S :
    /\ \A p \in {Lookup(labelIdMap, labels[r].previousLabelId)} :
         IsObj(p) => \E i \in ItemsOf(p), j \in ItemsOf(r) : i < j
    /\ \A n \in {Lookup(labelIdMap, labels[r].nextLabelId)} :
         IsObj(n) => \E i \in ItemsOf(r), j \in ItemsOf(n) : i < j

(***************************************************************************)
(* C1: label ids                                                           *)
(***************************************************************************)
\* C1: after the load of a document with unique label ids, whatever is
\* called, no two labels of the session share an id, the keys of labelIdMap
\* are the ids of all labels ever made (deleted ones too), each mapped to
\* its label, lastLabelId never decreases, and the id newLabel returns is
\* greater than every id there was, the loaded ones included.
C1_LabelIdsUniqueAndIncreasing ==
  /\ []((loaded /\ UniqueIds(doc)) =>
          /\ \A a, b \in 1..Len(labels) : labels[a].id = labels[b].id => a = b
          /\ DOMAIN labelIdMap = Ids
          /\ \A id \in DOMAIN labelIdMap : labels[labelIdMap[id]].id = id)
  /\ [][ /\ lastLabelId' >= lastLabelId
         /\ (last'.op = "newLabel" /\ UniqueIds(doc)) =>
              /\ Len(labels') = Len(labels) + 1
              /\ labels'[Len(labels')].id = last'.arg
              /\ \A r \in 1..Len(labels) : last'.arg > labels[r].id
              /\ \A k \in 1..Len(doc.labels) : last'.arg > doc.labels[k].id
       ]_vars

\* a label was made in a session loaded with the ids 3 and 7, after a label
\* was deleted
C1_Witness ==
  /\ last.op = "newLabel"
  /\ doc = DocSkip
  /\ last.arg = 8
  /\ \E r \in 1..Len(labels) : ~labels[r].valid

(***************************************************************************)
(* C2, C4: the full delete                                                 *)
(***************************************************************************)
\* the step is item.deleteLabelById(id, true) on the current item it, and
\* the label at position k of its list has that id
FullDeleteOf(it, k) ==
  /\ last'.op = "deleteLabelById"
  /\ last'.back
  /\ last'.item = it
  /\ it = currentItem
  /\ IsObj(items[it].labels[k])
  /\ labels[items[it].labels[k]].id = last'.arg
  /\ \A j \in 1..(k - 1) :
       IsObj(items[it].labels[j]) /\ labels[items[it].labels[j]].id # last'.arg

\* C2: after a full delete of a label of the active item, no item lists the
\* label or a label of its chain, for every chain whose previous links lead
\* to earlier items and next links to later items.
C2_FullDeleteUnlistsChain ==
  [][\A it \in 1..Len(items) : \A k \in 1..Len(items[it].labels) :
       (FullDeleteOf(it, k) /\ Monotonic(ChainOf(items[it].labels[k]))) =>
         \A c \in ChainOf(items[it].labels[k]) :
           \A j \in 1..Len(items') : c \notin Range(items'[j].labels)
    ]_vars

\* C4: after a full delete of a label that is linked to labels of other
\* items, every label of the chain is invalid and is still registered in
\* labelIdMap under its id.
C4_FullDeleteInvalidatesChain ==
  [][\A it \in 1..Len(items) : \A k \in 1..Len(items[it].labels) :
       (FullDeleteOf(it, k) /\ Linked(items[it].labels[k]) # {}) =>
         \A c \in ChainOf(items[it].labels[k]) :
           /\ ~labels'[c].valid
           /\ Lookup(labelIdMap', labels[c].id) = c
    ]_vars

(***************************************************************************)
(* C5, C6: the document and the graph                                      *)
(***************************************************************************)
\* the label of a session that is valid and has the id
ValidWithId(s, id) ==
  CHOOSE r \in 1..Len(s.labels) : s.labels[r].valid /\ s.labels[r].id = id

ValidIdsOf(s) ==
  {s.labels[r].id : r \in {x \in 1..Len(s.labels) : s.labels[x].valid}}

\* a sequence of references as the ids of the valid labels among them
RECURSIVE ValidIdSeq(_, _, _)
ValidIdSeq(s, refs, i) ==
  IF i > Len(refs) THEN <<>>
  ELSE IF IsObj(refs[i]) /\ s.labels[refs[i]].valid
  THEN <<s.labels[refs[i]].id>> \o ValidIdSeq(s, refs, i + 1)
  ELSE ValidIdSeq(s, refs, i + 1)

\* the graph of the valid labels of a session: per id the parent, the
\* children as a set, the links, and per item the labels it lists
ValidGraph(s) ==
  [ids |-> ValidIdsOf(s),
   node |-> [id \in ValidIdsOf(s) |->
               LET l == s.labels[ValidWithId(s, id)]
               IN [parent |-> IF IsObj(l.parent)
                              THEN s.labels[l.parent].id ELSE NoId,
                   children |-> Range(ValidIdSeq(s, l.children, 1)),
                   previousLabelId |-> l.previousLabelId,
                   nextLabelId |-> l.nextLabelId]],
   items |-> [it \in 1..Len(s.items) |->
                ValidIdSeq(s, s.items[it].labels, 1)]]

\* a document with the children of its labels as sets
ChildrenAsSets(json) ==
  [items |-> json.items,
   labels |-> [k \in 1..Len(json.labels) |->
                 [json.labels[k] EXCEPT !.children = Range(@)]]]

\* C5: in every state, decoding the document toJson produces gives a session
\* with the same graph (valid ids, parents, child sets, previous and next
\* links, also to and from the label with id 0, labels of each item), and
\* encoding that session gives the same document up to the order of children.
C5_RoundTrip ==
  (loaded /\ encodeBaseJson(Session).ok) =>
    LET json == encodeBaseJson(Session).json
        s2 == decodeBaseJson(Sat, json)
    IN /\ ~s2.fault
       /\ ValidGraph(s2) = ValidGraph(Session)
       /\ encodeBaseJson(s2).ok
       /\ ChildrenAsSets(encodeBaseJson(s2).json) = ChildrenAsSets(json)

\* the graph of all labels of a session by id: per id the links, the parent
\* and the children by id, and per item the ids it lists
IdOf(s, r) == IF IsObj(r) THEN s.labels[r].id ELSE NoId

GraphById(s) ==
  [node |-> [id \in DOMAIN s.labelIdMap |->
               LET l == s.labels[s.labelIdMap[id]]
               IN [id |-> l.id, parent |-> IdOf(s, l.parent),
                   children |-> [k \in 1..Len(l.children) |->
                                   IdOf(s, l.children[k])],
                   numChildren |-> l.numChildren,
                   previousLabelId |-> l.previousLabelId,
                   nextLabelId |-> l.nextLabelId]],
   items |-> [it \in 1..Len(s.items) |->
                [k \in 1..Len(s.items[it].labels) |->
                   IdOf(s, s.items[it].labels[k])]]]

DocIds(json) == {json.labels[k].id : k \in 1..Len(json.labels)}

\* C6: whatever the order of the labels array of a document with unique ids,
\* the load gives every label the previousLabelId and nextLabelId of the
\* document and resolves every parent and children id that names a label of
\* the document to the label with that id, also when that label comes later
\* in the array; the graph is the same for every order of the array.
C6_LoadInAnyOrder ==
  (last.op = "load" /\ UniqueIds(doc)) =>
    /\ ~last.fault
    /\ \A k \in 1..Len(doc.labels) :
         LET json == doc.labels[k]
             r == Lookup(labelIdMap, json.id)
         IN /\ IsObj(r)
            /\ labels[r].id = json.id
            /\ labels[r].previousLabelId =
                 (IF json.previousLabelId > -1
                  THEN json.previousLabelId ELSE NoId)
            /\ labels[r].nextLabelId =
                 (IF json.nextLabelId > -1 THEN json.nextLabelId ELSE NoId)
            /\ json.parent \in DocIds(doc) =>
                 /\ IsObj(labels[r].parent)
                 /\ labels[labels[r].parent].id = json.parent
            /\ Len(labels[r].children) = Len(json.children)
            /\ \A c \in 1..Len(json.children) :
                 json.children[c] \in DocIds(doc) =>
                   /\ IsObj(labels[r].children[c])
                   /\ labels[labels[r].children[c]].id = json.children[c]
    /\ \A other \in Reorderings(doc) :
         GraphById(decodeBaseJson(Sat, other)) = GraphById(Session)

\* a document was loaded in which a child comes before its parent and
\* another child after it
C6_Witness ==
  /\ last.op = "load"
  /\ Len(doc.labels) = 3
  /\ doc.labels[1].parent = doc.labels[2].id
  /\ doc.labels[2].children = <<doc.labels[1].id, doc.labels[3].id>>
  /\ labels[1].parent = 2
  /\ labels[2].children = <<1, 3>>

(***************************************************************************)
(* C7, C10: navigation                                                     *)
(***************************************************************************)
\* C7: gotoItem(index) makes items[index mod n] the current item, for any
\* integer index, with the modulo of mathematics (a result in 0 .. n-1).
C7_GotoItemWraps ==
  (last.op = "gotoItem" /\ Len(items) >= 1) =>
    currentItem = (last.arg % Len(items)) + 1

\* C10: after the load of a document with at least one item and any calls of
\* gotoItem, exactly one item is active and it is the current item.
C10_OneActiveItem ==
  (loaded /\ Len(doc.items) >= 1) =>
    /\ IsObj(currentItem)
    /\ \A it \in 1..Len(items) : items[it].active <=> it = currentItem

(***************************************************************************)
(* C3, C8: deleted labels                                                  *)
(***************************************************************************)
\* C3 as stated: in every state, no item lists a label whose valid flag is
\* false.
C3_NoInvalidLabelListed ==
  \A it \in 1..Len(items) : \A k \in 1..Len(items[it].labels) :
    IsObj(items[it].labels[k]) => labels[items[it].labels[k]].valid

\* the step is a pointer-up that ends a resize of the label sel of the item
\* it, and the box of sel is below the minimum size
Rejects(it, sel) ==
  /\ last'.op = "mouseup"
  /\ it = mouseTarget
  /\ items[it].state = "resize"
  /\ sel = items[it].selectedLabel
  /\ IsObj(sel)
  /\ isSmall(normalize(labels[sel]))

\* C8 as stated: when a resize ends with the selected label below the
\* minimum size, the label is absent from the labels of the session
\* afterwards and lastLabelId is unchanged.
C8_RejectedLabelAbsent ==
  [][\A it \in 1..Len(items) : \A sel \in 1..Len(labels) :
       Rejects(it, sel) =>
         /\ \A r \in 1..Len(labels') : labels'[r].id # labels[sel].id
         /\ lastLabelId' = lastLabelId
    ]_vars

\* C8, amended: when a resize ends with the selected label below the minimum
\* size, the label has valid = false afterwards and stays in the labels of
\* the session and in labelIdMap under its id; lastLabelId is unchanged.
C8_RejectedLabelInvalid ==
  [][\A it \in 1..Len(items) : \A sel \in 1..Len(labels) :
       Rejects(it, sel) =>
         /\ Len(labels') = Len(labels)
         /\ labels'[sel].id = labels[sel].id
         /\ ~labels'[sel].valid
         /\ Lookup(labelIdMap', labels[sel].id) = sel
         /\ lastLabelId' = lastLabelId
    ]_vars

\* the only click drew a label, and the pointer-up rejected it
C8_Witness ==
  /\ last.op = "mouseup"
  /\ ~last.fault
  /\ clicks = 1
  /\ last.arg = lastLabelId
  /\ Len(labels) = Len(doc.labels) + 1
  /\ ~labels[Len(labels)].valid
  /\ isSmall(labels[Len(labels)])
  /\ items[last.item].state = "free"

(***************************************************************************)
(* C9: the hit test                                                        *)
(***************************************************************************)
\* the label at a 0-based slot of an item, none outside its list
LabelAt(it, slot) ==
  IF slot < Len(items[it].labels) THEN items[it].labels[slot + 1] ELSE Null

\* C9: the pixel that encodes slot s and handle h, (s div 256, s mod 256,
\* h + 1, 255), is read back as the label at position s of the labels of the
\* item and the handle h; a pixel with alpha 0 gives no label and no handle.
C9_HitTestInvertsEncoding ==
  (last.op = "mousemove" /\ IsObj(last.item)) =>
    LET hit == <<items[last.item].hoverLabel, items[last.item].hoverHandle>>
    IN /\ \A slot \in Slots, h \in Handles :
            last.pixel = <<slot \div 256, slot % 256, h + 1, 255>> =>
              hit = <<LabelAt(last.item, slot), h>>
       /\ last.pixel[4] = 0 => hit = <<Null, NoHandle>>

\* the mouse is over handle 9 of the second label of the item
C9_Witness ==
  /\ last.op = "mousemove"
  /\ last.pixel = <<0, 1, 10, 255>>
  /\ items[last.item].hoverLabel = items[last.item].labels[2]
  /\ items[last.item].hoverHandle = 9

(***************************************************************************)
(* C11: the interaction state of the active item                           *)
(***************************************************************************)
\* C11: the state of the item the page is bound to is always free, resize
\* or move, and every pointer-up leaves it free with resizeID, movePos and
\* moveClickPos cleared, also when the selected label was removed in the
\* middle of the gesture.
C11_PointerUpEndsGesture ==
  /\ [](IsObj(mouseTarget) =>
          items[mouseTarget].state \in {"free", "resize", "move"})
  /\ [][(last'.op = "mouseup" /\ IsObj(mouseTarget)) =>
          /\ items'[mouseTarget].state = "free"
          /\ items'[mouseTarget].resizeID = NoId
          /\ items'[mouseTarget].movePos = NoPos
          /\ items'[mouseTarget].moveClickPos = NoPos
       ]_vars

(***************************************************************************)
(* C12, C13, C19: malformed documents                                      *)
(***************************************************************************)
\* C12: the load of a document that lacks the items field, or in which two
\* entries of the labels array have the same id, ends with an error.
C12_MalformedLoadAborts ==
  [][(last'.op = "load" /\ (~doc'.hasItems \/ ~UniqueIds(doc')))
       => last'.fault]_vars

\* an item of the document names an id that no label of the document has,
\* and the document is well formed otherwise
HasDangling(json) ==
  /\ json.hasItems
  /\ UniqueIds(json)
  /\ \E i \in 1..Len(json.items) :
       \E k \in 1..Len(json.items[i].labelIds) :
         json.items[i].labelIds[k] \notin DocIds(json)

\* C13: the load of a document in which an item names an id that no label
\* has completes, and afterwards every entry of the labels of every item is
\* a label registered in labelIdMap.
C13_DanglingIdsDropped ==
  (loaded /\ HasDangling(doc)) =>
    /\ last.op = "load" => ~last.fault
    /\ \A it \in 1..Len(items) : \A k \in 1..Len(items[it].labels) :
         LET e == items[it].labels[k]
         IN IsObj(e) /\ Lookup(labelIdMap, labels[e].id) = e

\* C19: after a load and any calls of newItem, items[k].index = k at every
\* position k, previousItem() and nextItem() of items[k] are items[k - 1]
\* and items[k + 1], and none at the first and at the last position.
C19_IndexIsPosition ==
  \A k \in 1..Len(items) :
    /\ items[k].index = k - 1
    /\ previousItem(Session, k) = (IF k = 1 THEN Null ELSE k - 1)
    /\ nextItem(Session, k) = (IF k = Len(items) THEN Null ELSE k + 1)

(***************************************************************************)
(* C14: the end of a chain                                                 *)
(***************************************************************************)
\* C14: a walk along previousLabelId / nextLabelId, in deleteLabelById and
\* in the selection propagation of a pointer-up that finds a label
\* selected, ends without a fault where the link is absent or names no
\* label, also when further items with labels follow.
C14_ChainWalkStops ==
  [][(\/ last'.op = "deleteLabelById"
      \/ /\ last'.op = "mouseup"
         /\ IsObj(mouseTarget)
         /\ IsObj(items[mouseTarget].selectedLabel))
       => ~last'.fault]_vars

(***************************************************************************)
(* C15: the export                                                         *)
(***************************************************************************)
\* the valid labels of the session, in the order of sat.labels
ValidRefs == SelectSeq([r \in 1..Len(labels) |-> r], LAMBDA r : labels[r].valid)

\* C15: in every state, toJson gives a document whose labels array holds
\* the labels of the session with valid = true, each once, and in which no
\* labelIds of an item holds the id of a label with valid = false.
C15_ExportHoldsValidLabels ==
  loaded =>
    LET e == encodeBaseJson(Session)
    IN /\ e.ok
       /\ Len(e.json.labels) = Len(ValidRefs)
       /\ \A k \in 1..Len(ValidRefs) :
            e.json.labels[k].id = labels[ValidRefs[k]].id
       /\ \A it \in 1..Len(e.json.items) :
            \A id \in Range(e.json.items[it].labelIds) :
              \A r \in 1..Len(labels) : labels[r].id = id => labels[r].valid

\* a label was deleted that an item still lists, next to a valid one
C15_Witness ==
  /\ last.op = "delete"
  /\ \E it \in 1..Len(items) : \E r \in Range(items[it].labels) :
       ~labels[r].valid
  /\ \E r \in 1..Len(labels) : labels[r].valid

(***************************************************************************)
(* C16: the events log                                                     *)
(***************************************************************************)
\* C16: every creation of a label (newLabel) and every deletion of a label
\* (delete, and a deleteLabelById that removes a label from an item)
\* appends an entry to the events of the session.
C16_LabelEventsLogged ==
  [][(/\ ~last'.fault
      /\ \/ last'.op \in {"newLabel", "delete"}
         \/ last'.op = "deleteLabelById" /\ items' # items)
       => /\ Len(events') > Len(events)
          /\ SubSeq(events', 1, Len(events)) = events]_vars

(***************************************************************************)
(* C17: numChildren                                                        *)
(***************************************************************************)
\* parent and children of the labels agree
TreeAgrees(json) ==
  \A a, b \in 1..Len(json.labels) :
    (json.labels[a].parent = json.labels[b].id)
      <=> (json.labels[a].id \in Range(json.labels[b].children))

\* C17: after the load of a document whose parent and children fields
\* agree and any calls of delete(), on invalid labels too, numChildren of
\* every valid label is the number of valid labels among its children, and
\* is not negative.
C17_NumChildrenCountsValid ==
  (loaded /\ TreeAgrees(doc)) =>
    \A r \in 1..Len(labels) :
      labels[r].valid =>
        /\ labels[r].numChildren >= 0
        /\ labels[r].numChildren =
             Cardinality({k \in 1..Len(labels[r].children) :
                            labels[labels[r].children[k]].valid})

(***************************************************************************)
(* C18: chains and the order of the items                                  *)
(***************************************************************************)
\* C18: after the load of a document with consistent chains that follow
\* the order of the items, whatever is called, every label that an item
\* lists has its previousLabelId, when set, naming a label that an earlier
\* item lists, and its nextLabelId, when set, naming a label that a later
\* item lists.
C18_ChainsFollowItems ==
  \A it \in 1..Len(items) : \A r \in Range(items[it].labels) :
    /\ labels[r].previousLabelId # NoId =>
         \E p \in {Lookup(labelIdMap, labels[r].previousLabelId)} :
           IsObj(p) /\ \E i \in ItemsOf(p) : i < it
    /\ labels[r].nextLabelId # NoId =>
         \E n \in {Lookup(labelIdMap, labels[r].nextLabelId)} :
           IsObj(n) /\ \E j \in ItemsOf(n) : it < j

(***************************************************************************)
(* C20: what a press of the mouse button does                              *)
(***************************************************************************)
\* the lists of labels a press leaves alone: sat.labels and the list of
\* every item
ListsKept ==
  /\ labels' = labels
  /\ \A k \in 1..Len(items) : items'[k].labels = items[k].labels

\* C20: a press of the mouse button on an item in state free, inside the
\* frame, does exactly one of three things.  On a pixel of a label of the
\* item with a handle above 0 the state becomes resize, resizeID is the id
\* of that label, the label is selected and no label is created.  On a
\* pixel of a label with handle 0 the state becomes move, movePos is the
\* position of the label, moveClickPos is the position of the mouse and no
\* label is created.  On a pixel of no label, exactly one label is appended
\* to sat.labels with the next id and to the list of the item, which is the
\* current one; it is selected, the state becomes resize, the handle is
\* the initial one and resizeID is its id.  A press in another state, or
\* outside the frame, leaves the state, the selection and every list of
\* labels as they were.
C20_PointerDownCases ==
  [][(last'.op = "mousedown" /\ IsObj(last'.item)) =>
       LET it == last'.item
           p == last'.pixel
           h == p[3] - 1
           hit == IF p[4] # 0 THEN LabelAt(it, p[1] * 256 + p[2]) ELSE Null
           new == Len(labels) + 1
       IN IF items[it].state = "free" /\ last'.back
          THEN /\ (IsObj(hit) /\ h > 0) =>
                    /\ items'[it].state = "resize"
                    /\ items'[it].resizeID = labels[hit].id
                    /\ items'[it].selectedLabel = hit
                    /\ ListsKept
               /\ (IsObj(hit) /\ h = 0) =>
                    /\ items'[it].state = "move"
                    /\ items'[it].movePos = <<labels[hit].box[1],
                                              labels[hit].box[2]>>
                    /\ items'[it].moveClickPos = last'.pos
                    /\ items'[it].selectedLabel = hit
                    /\ ListsKept
               /\ ~IsObj(hit) =>
                    /\ Len(labels') = new
                    /\ SubSeq(labels', 1, Len(labels)) = labels
                    /\ labels'[new].id = lastLabelId + 1
                    /\ labels'[new].valid
                    /\ currentItem = it
                    /\ items'[it].labels = Append(items[it].labels, new)
                    /\ \A k \in 1..Len(items) :
                         k # it => items'[k].labels = items[k].labels
                    /\ items'[it].selectedLabel = new
                    /\ items'[it].state = "resize"
                    /\ items'[it].currHandle = INITIAL_HANDLE
                    /\ items'[it].resizeID = labels'[new].id
               /\ IsObj(hit) => h >= 0
          ELSE /\ items'[it].state = items[it].state
               /\ items'[it].selectedLabel = items[it].selectedLabel
               /\ ListsKept
  ]_vars

(***************************************************************************)
(* C21: what delete() invalidates                                          *)
(***************************************************************************)
\* the labels of S and everything below them, n levels down
RECURSIVE Subtree(_, _)
Subtree(S, n) ==
  IF n = 0 THEN S
  ELSE Subtree(S \cup {c \in 1..Len(labels) :
                         \E r \in S : c \in Range(labels[r].children)},
               n - 1)

\* r is the last valid child of its parent
LastValidChild(r) ==
  /\ IsObj(labels[r].parent)
  /\ labels[labels[r].parent].valid
  /\ \A c \in Range(labels[labels[r].parent].children) :
       c # r => ~labels[c].valid

\* the ancestors of r that lose their last valid child with r, n levels up
RECURSIVE Emptied(_, _)
Emptied(r, n) ==
  IF n = 0 \/ ~LastValidChild(r) THEN {}
  ELSE {labels[r].parent} \cup Emptied(labels[r].parent, n - 1)

\* C21: delete() on a valid label L of a loaded tree returns, and then L
\* and every label below it are invalid, the children of L have no parent,
\* the parent of L (and its parent, and so on) is invalid exactly when L
\* was its last valid child, and every other label is valid exactly when
\* it was before.
C21_DeleteCascades ==
  [][\A L \in 1..Len(labels) :
       (last'.op = "delete" /\ last'.arg = labels[L].id /\ labels[L].valid
        /\ TreeAgrees(doc)) =>
         LET gone == Subtree({L}, Len(labels)) \cup Emptied(L, Len(labels))
         IN /\ ~last'.fault
            /\ \A x \in 1..Len(labels) :
                 labels'[x].valid <=> (labels[x].valid /\ x \notin gone)
            /\ \A c \in Range(labels[L].children) :
                 labels'[c].parent = Null
  ]_vars

(***************************************************************************)
(* C22: the end of a track, deleteLabelById(id, false)                     *)
(***************************************************************************)
\* the labels a label reaches over nextLabelId alone, n links away at most
RECURSIVE Successors(_, _)
Successors(r, n) ==
  LET x == Lookup(labelIdMap, labels[r].nextLabelId)
  IN IF n = 0 \/ ~IsObj(x) THEN {} ELSE {x} \cup Successors(x, n - 1)

\* a list of labels without the labels of S
Without(q, S) == SelectSeq(q, LAMBDA e : e \notin S)

\* C22: deleteLabelById(id, false) on an item that lists the label with
\* this id takes the label out of the list of the item and the labels its
\* nextLabelId chain reaches out of the lists of the later items, clears
\* the selection of each of these items that had selected a label taken
\* out, and leaves as they were the list and the selection of every earlier
\* item and the fields of every label.
C22_EndTrackUnlistsForward ==
  [][\A r \in 1..Len(labels) :
       (last'.op = "deleteLabelById" /\ ~last'.back /\ IsObj(last'.item)
        /\ last'.arg = labels[r].id
        /\ r \in Range(items[last'.item].labels)) =>
         LET it == last'.item
             out == Successors(r, Len(labels))
         IN /\ labels' = labels
            /\ items'[it].labels = Without(items[it].labels, {r})
            /\ \A j \in 1..Len(items) :
                 /\ j > it =>
                      items'[j].labels = Without(items[j].labels, out)
                 /\ j < it => items'[j].labels = items[j].labels
                 /\ items'[j].selectedLabel =
                      IF j < it
                         \/ items[j].selectedLabel \notin
                              (IF j = it THEN {r} ELSE out)
                      THEN items[j].selectedLabel ELSE Null
  ]_vars

(***************************************************************************)
(* C23: what a move of the mouse changes                                   *)
(***************************************************************************)
\* C23: a move of the mouse changes, of the item, the hover label and the
\* hover handle alone: its state, its selection, its handle and the lists
\* of all items stay.  In state free no label changes and nothing else of
\* the session does.  In any state the only field of a label that may
\* change is the box, and only the box of the selected label in state
\* resize or move; in state move its width and height stay.
C23_PointerMoveFrame ==
  [][(last'.op = "mousemove" /\ IsObj(last'.item)) =>
       LET it == last'.item
           st == items[it].state
       IN /\ items' = [items EXCEPT
                         ![it].hoverLabel = items'[it].hoverLabel,
                         ![it].hoverHandle = items'[it].hoverHandle]
          /\ Len(labels') = Len(labels)
          /\ st = "free" =>
               /\ labels' = labels
               /\ UNCHANGED <<labelIdMap, lastLabelId, currentItem, events>>
          /\ \A r \in 1..Len(labels) :
               \/ labels'[r] = labels[r]
               \/ /\ st \in {"resize", "move"}
                  /\ r = items[it].selectedLabel
                  /\ labels'[r] = [labels[r] EXCEPT !.box = labels'[r].box]
                  /\ st = "move" =>
                       /\ labels'[r].box[3] = labels[r].box[3]
                       /\ labels'[r].box[4] = labels[r].box[4]
  ]_vars

\* C23 happens in state free: the mouse hovers over a label that is not
\* the selected one
C23_Witness ==
  /\ last.op = "mousemove" /\ IsObj(last.item) /\ ~last.fault
  /\ items[last.item].state = "free"
  /\ IsObj(items[last.item].hoverLabel)
  /\ items[last.item].hoverLabel # items[last.item].selectedLabel

(***************************************************************************)
(* C24: the selection follows the tracked object                           *)
(***************************************************************************)
\* C24: after a release of the mouse button on an item whose selected
\* label has a parent, every other item that lists a label of the chain of
\* the selected label has this label selected; the release changes no
\* label but the selected one, and of the selected one neither its
\* validity nor its links, and its box in state resize alone.
C24_SelectionFollowsChain ==
  [][(last'.op = "mouseup" /\ IsObj(last'.item)
      /\ IsObj(items'[last'.item].selectedLabel)
      /\ IsObj(labels'[items'[last'.item].selectedLabel].parent)) =>
       LET it == last'.item
           sel == items'[it].selectedLabel
       IN /\ \A j \in 1..Len(items) : \A c \in ChainOf(sel) :
               (j # it /\ c \in Range(items'[j].labels)) =>
                 items'[j].selectedLabel = c
          /\ \A r \in 1..Len(labels) :
               \/ labels'[r] = labels[r]
               \/ /\ r = sel
                  /\ items[it].state = "resize"
                  /\ labels'[r] = [labels[r] EXCEPT !.box = labels'[r].box]
  ]_vars

(***************************************************************************)
(* C25: the box at the end of a gesture                                    *)
(***************************************************************************)
Min(a, b) == IF a < b THEN a ELSE b
Abs(a) == IF a < 0 THEN -a ELSE a

\* C25: a release of the mouse button in state resize turns the box
\* (x, y, w, h) of the selected label into
\* (min(x, x + w), min(y, y + h), |w|, |h|); a release in state move
\* leaves the box of the selected label as it was.
C25_ReleaseNormalizesBox ==
  [][(last'.op = "mouseup" /\ IsObj(last'.item)
      /\ IsObj(items[last'.item].selectedLabel)) =>
       LET sel == items[last'.item].selectedLabel
           b == labels[sel].box
       IN /\ items[last'.item].state = "resize" =>
               labels'[sel].box = <<Min(b[1], b[1] + b[3]),
                                    Min(b[2], b[2] + b[4]),
                                    Abs(b[3]), Abs(b[4])>>
          /\ items[last'.item].state = "move" => labels'[sel].box = b
  ]_vars

\* C25 happens: a box dragged across its corner only in height was
\* released and is now upright, large enough to stay
C25_Witness ==
  /\ last.op = "mouseup" /\ ~last.fault /\ last.box # NoPos
  /\ last.box[3] > 0 /\ last.box[4] < 0
  /\ IsObj(items[last.item].selectedLabel)
  /\ labels[items[last.item].selectedLabel].box =
       <<last.box[1], last.box[2] + last.box[4], last.box[3], -last.box[4]>>
  /\ items[last.item].state = "free"

(***************************************************************************)
(* C26: the selection of an item                                           *)
(***************************************************************************)
\* C26: the selected label of every item is none or a label the item
\* lists.
C26_SelectionIsListed ==
  \A it \in 1..Len(items) :
    IsObj(items[it].selectedLabel) =>
      items[it].selectedLabel \in Range(items[it].labels)

(***************************************************************************)
(* C27: the links of the exported document                                 *)
(***************************************************************************)
\* every id an exported document mentions is the id of one of its labels
Closed(json) ==
  LET ids == {json.labels[k].id : k \in 1..Len(json.labels)}
  IN /\ \A i \in 1..Len(json.items) : Range(json.items[i].labelIds) \subseteq ids
     /\ \A k \in 1..Len(json.labels) :
          /\ json.labels[k].parent # -1 => json.labels[k].parent \in ids
          /\ Range(json.labels[k].children) \subseteq ids
          /\ json.labels[k].previousLabelId # -1 =>
               json.labels[k].previousLabelId \in ids
          /\ json.labels[k].nextLabelId # -1 =>
               json.labels[k].nextLabelId \in ids

\* C27: in every state of a loaded session the document toJson returns
\* mentions, in the labelIds of its items and in parent, children,
\* previousLabelId and nextLabelId of its labels, only ids of labels of its
\* labels array.
C27_ExportIsClosed ==
  loaded =>
    \E e \in {encodeBaseJson(Session)} : e.ok => Closed(e.json)

====
